---- MODULE Spec2Model ----
(***************************************************************************)
(* A model of ipinfo-bot (src/main.py): the configuration loader that runs *)
(* at import time, the lookup client fetch_ipinfo, the presenter           *)
(* make_embed_from_data and the command handler ipinfo_cmd with its        *)
(* per-user cooldown.                                                      *)
(*                                                                         *)
(* Three specifications share the variables:                               *)
(*   SpecStartup  the module-level start-up code, lines 18-54;             *)
(*   SpecRender   make_embed_from_data applied to bounded lookup results;  *)
(*   Spec         the ipinfo command under a clock and the cooldown.       *)
(***************************************************************************)
EXTENDS Integers, Sequences, FiniteSets, TLC

VARIABLES
    cfgFile,      \* what data/settings/config.yml holds (or that it is absent)
    env,          \* the environment variables read by os.getenv
    boot,         \* the position and the results of the start-up code
    rin,          \* presenter: the arguments of make_embed_from_data
    rout,         \* presenter: what the call produced
    now,          \* dispatcher: the clock, in seconds
    buckets,      \* dispatcher: the cooldown mapping, bucket key -> window start
    lastRun,      \* history: per user, the set holding the time its last invocation passed the cooldown
    last          \* history: the record of the latest ipinfo invocation

vars == <<cfgFile, env, boot, rin, rout, now, buckets, lastRun, last>>

(***************************************************************************)
(* Python values.  A value is a record tagged by its type.  A string is a  *)
(* sequence of pieces [c, n]: the text c repeated n times, so that a       *)
(* string of several thousand characters stays a small value.  Strings     *)
(* that the code splits are made of one-character pieces.                  *)
(***************************************************************************)
None == [t |-> "none"]

Bool(b) == [t |-> "bool", b |-> b]

Num(n) == [t |-> "num", n |-> n]

Str(s) == [t |-> "str", s |-> s]

List(items) == [t |-> "list", items |-> items]

Dict(d) == [t |-> "dict", d |-> d]

Run(c, n) == [c |-> c, n |-> n]

Lit(c) == <<Run(c, 1)>>

RECURSIVE TextLen(_)
TextLen(s) ==
    IF s = <<>> THEN 0
    ELSE LET p == Head(s)
             w == IF "json" \in DOMAIN p THEN p.len ELSE Len(p.c) * p.n
         IN  w + TextLen(Tail(s))

\* bool(v): the truth value Python gives v in `if v` and in `a or b`.
Truthy(v) ==
    CASE v.t = "none" -> FALSE
      [] v.t = "bool" -> v.b
      [] v.t = "num"  -> v.n /= 0
      [] v.t = "str"  -> TextLen(v.s) > 0
      [] v.t = "dict" -> DOMAIN v.d /= {}
      [] OTHER        -> v.items /= <<>>

\* str(v) for the values the presenter formats.
PyStr(v) ==
    CASE v.t = "str"  -> v.s
      [] v.t = "num"  -> Lit(ToString(v.n))
      [] v.t = "bool" -> IF v.b THEN Lit("True") ELSE Lit("False")
      [] v.t = "none" -> Lit("None")
      [] OTHER        -> Lit("[...]")

\* dict.get(key) with the default None.
Get(d, key) == IF key \in DOMAIN d THEN d[key] ELSE None

\* s.split(","): the parts between the commas, in order.
RECURSIVE Split(_)
Split(s) ==
    IF s = <<>> THEN << <<>> >>
    ELSE LET p == Head(s)
         IN  IF p.c = ","
             THEN << <<>> >> \o (IF p.n > 1
                                 THEN Split(<<Run(",", p.n - 1)>> \o Tail(s))
                                 ELSE Split(Tail(s)))
             ELSE LET rest == Split(Tail(s))
                  IN  << <<p>> \o Head(rest) >> \o Tail(rest)

(***************************************************************************)
(* json.dumps(data, indent=2, ensure_ascii=False), line 105: the length of *)
(* the text it returns.  An empty mapping prints as "{}"; otherwise each   *)
(* entry takes a line of its own, indented by two, as "key": value, and    *)
(* the entries are separated by commas.                                    *)
(***************************************************************************)
JsonValueLen(v) ==
    CASE v.t = "none" -> Len("null")
      [] v.t = "bool" -> IF v.b THEN Len("true") ELSE Len("false")
      [] v.t = "num"  -> Len(ToString(v.n))
      [] v.t = "str"  -> TextLen(v.s) + 2
      [] OTHER        -> 2

RECURSIVE SumOver(_, _)
SumOver(S, d) ==
    IF S = {} THEN 0
    ELSE LET k == CHOOSE x \in S : TRUE
         IN  Len("\n  ") + Len(k) + 2 + Len(": ") + JsonValueLen(d[k])
               + SumOver(S \ {k}, d)

JsonDumpsLen(d) ==
    IF DOMAIN d = {} THEN Len("{}")
    ELSE Len("{") + SumOver(DOMAIN d, d) + (Cardinality(DOMAIN d) - 1)
           + Len("\n}")

(***************************************************************************)
(* The presenter, make_embed_from_data, lines 73-110.                      *)
(***************************************************************************)
\* The (label, key) pairs of lines 77-87, in their order.
fields ==
    << <<"IP", "ip">>, <<"Hostname", "hostname">>, <<"City", "city">>,
       <<"Region", "region">>, <<"Country", "country">>,
       <<"Location (lat,long)", "loc">>, <<"Organization", "org">>,
       <<"Postal", "postal">>, <<"Timezone", "timezone">> >>

\* A field of the embed, as embed.add_field stores it.
Field(name, value, inline) == [name |-> name, value |-> value, inline |-> inline]

\* The loop of lines 89-91 with the test `val is not None`.
RECURSIVE AddFieldsNotNone(_, _)
AddFieldsNotNone(i, data) ==
    IF i > Len(fields) THEN <<>>
    ELSE LET name == fields[i][1]
             val  == Get(data, fields[i][2])
         IN  (IF val /= None THEN <<Field(name, PyStr(val), TRUE)>> ELSE <<>>)
               \o AddFieldsNotNone(i + 1, data)

\* Lines 89-91: one field for every (label, value) whose value is truthy.
RECURSIVE AddFieldsFrom(_, _)
AddFieldsFrom(i, data) ==
    IF i > Len(fields) THEN <<>>
    ELSE LET name == fields[i][1]
             val  == Get(data, fields[i][2])
         IN  (IF Truthy(val) THEN <<Field(name, PyStr(val), TRUE)>> ELSE <<>>)
               \o AddFieldsFrom(i + 1, data)

\* Line 96, `lat, lon = loc.split(",")`: succeeds when loc has a split
\* method and the split yields exactly two parts; anything else raises
\* (AttributeError, ValueError), which lines 100-101 swallow.
UnpackOk(loc) == loc.t = "str" /\ Len(Split(loc.s)) = 2

\* Lines 97-99: the value of the Map field.
MapValue(lat, lon) ==
    Lit("[OpenStreetMap](") \o
    Lit("https://www.openstreetmap.org/?mlat=") \o lat \o Lit("&mlon=") \o lon
        \o Lit("#map=8/") \o lat \o Lit("/") \o lon \o
    Lit(") | [Google Maps](") \o
    Lit("https://www.google.com/maps?q=") \o lat \o Lit(",") \o lon \o
    Lit(")")

\* Lines 93-101.
MapBlock(data) ==
    LET loc == Get(data, "loc")
    IN  IF Truthy(loc) /\ UnpackOk(loc)
        THEN LET parts == Split(loc.s)
             IN  <<Field("Map", MapValue(parts[1], parts[2]), FALSE)>>
        ELSE <<>>

\* Line 106: the raw block is added below this serialised length.
RawLimit == 1024

\* Lines 105-107.  The fence of line 107 is three grave accents, written
\* here as three tildes; the piece between the fences is the serialised
\* mapping, kept as the mapping and its length.
RawBlock(data) ==
    IF JsonDumpsLen(data) < RawLimit
    THEN <<Field("Raw JSON",
                 Lit("~~~json\n") \o <<[json |-> data, len |-> JsonDumpsLen(data)]>>
                     \o Lit("\n~~~"),
                 FALSE)>>
    ELSE <<>>

\* Line 74 separates the two parts of the title by a dash outside ASCII,
\* one character long; a hyphen stands for it here.
make_embed_from_data(ip_or_host, data) ==
    [title  |-> Lit("IP info - ") \o ip_or_host,
     fields |-> AddFieldsFrom(1, data) \o MapBlock(data) \o RawBlock(data),
     footer |-> Lit("Data provided by ipinfo.io")]

\* len(embed), as line 154 takes it: the title, every field's name and
\* value, and the footer text.
RECURSIVE FieldsLen(_)
FieldsLen(fs) ==
    IF fs = <<>> THEN 0
    ELSE Len(Head(fs).name) + TextLen(Head(fs).value) + FieldsLen(Tail(fs))

EmbedLen(embed) == TextLen(embed.title) + FieldsLen(embed.fields) + TextLen(embed.footer)

(***************************************************************************)
(* Lookup results for the checks.  A result is a mapping from the keys it  *)
(* carries to their values; Missing marks a key the result does not carry. *)
(***************************************************************************)
Missing == [t |-> "missing"]

\* The mapping that carries the keys of `opts` whose option is not Missing.
MkData(opts) == [k \in {x \in DOMAIN opts : opts[x] /= Missing} |-> opts[k]]

\* The string whose characters are the elements of cs.
Chars(cs) == Str([i \in 1..Len(cs) |-> Run(cs[i], 1)])

\* A string of n characters (none of them a comma).
Filler(n) == Str(<<Run("x", n)>>)

TextOpts == {Missing, Str(<<>>), Chars(<<"a">>)}

PresenceOpts == {Missing, Chars(<<"b">>)}

NullableOpts == {None, Chars(<<"c">>)}

ScalarOpts == {Missing, Num(0), Num(7), Chars(<<"d">>)}

LocOpts ==
    { Missing, None, Str(<<>>), Num(5),
      Chars(<<"4", "0", ".", "7", ",", "-", "7", "4", ".", "0">>),
      Chars(<<"1", ",", "2">>),
      Chars(<<"a", "b", "c">>),
      Chars(<<"1", ",", "2", ",", "3">>),
      Chars(<<"a", ",", "b">>),
      Chars(<<",">>),
      Chars(<<"1", ",">>) }

RenderTargets == {Chars(<<"h">>), Chars(<<"8", ".", "8", ".", "8", ".", "8">>)}

RawOpts == {Missing, Chars(<<"r">>), Filler(RawLimit)}

(***************************************************************************)
(* Idle values of the three groups of variables: a specification leaves    *)
(* the groups it does not use at these.                                    *)
(***************************************************************************)
StartupIdle == cfgFile = [exists |-> FALSE] /\ env = <<>> /\ boot = [pc |-> "unused"]

RenderIdle == rin = <<>> /\ rout = [done |-> FALSE]

DispatchIdle ==
    /\ now = 0
    /\ buckets = <<>>
    /\ lastRun = <<>>
    /\ last = [kind |-> "none"]

(***************************************************************************)
(* SpecRender: make_embed_from_data on every result of the bounded sets.   *)
(***************************************************************************)
InitRender ==
    /\ StartupIdle
    /\ DispatchIdle
    /\ rout = [done |-> FALSE]
    /\ \E target \in RenderTargets,
          ip \in TextOpts, hostname \in TextOpts, city \in PresenceOpts,
          region \in PresenceOpts, country \in PresenceOpts, loc \in LocOpts,
          org \in NullableOpts, postal \in ScalarOpts, timezone \in PresenceOpts,
          raw \in RawOpts :
            rin = [target |-> target,
                   data   |-> MkData([ip |-> ip, hostname |-> hostname,
                                      city |-> city, region |-> region,
                                      country |-> country, loc |-> loc,
                                      org |-> org, postal |-> postal,
                                      timezone |-> timezone, raw |-> raw])]

Render ==
    /\ ~rout.done
    /\ rout' = [done |-> TRUE, embed |-> make_embed_from_data(rin.target.s, rin.data)]
    /\ UNCHANGED <<cfgFile, env, boot, rin, now, buckets, lastRun, last>>

NextRender == Render

SpecRender == InitRender /\ [][NextRender]_vars

(***************************************************************************)
(* The lookup client, fetch_ipinfo, lines 57-70.  A remote exchange is     *)
(* what session.get and the reads of the response do:                      *)
(*   [kind |-> "raise", exc |-> e]   the request raises e before a         *)
(*                                   response is read: a transport error   *)
(*                                   (an aiohttp.ClientError), or the      *)
(*                                   total timeout of line 64 expiring     *)
(*                                   (asyncio.TimeoutError);               *)
(*   [kind |-> "http", status, body] a response; body is "ContentType"     *)
(*                                   or "Decode" when resp.json() rejects  *)
(*                                   it, else the parsed JSON value.       *)
(***************************************************************************)
Raised(exc) == [raised |-> exc]

Returned(v) == [raised |-> "none", data |-> v]

fetch_ipinfo(exchange) ==
    IF exchange.kind = "raise" THEN Raised(exchange.exc)
    ELSE IF exchange.status /= 200 THEN Raised("ValueError")
    ELSE IF exchange.body = [t |-> "ContentType"] THEN Raised("ContentTypeError")
    ELSE IF exchange.body = [t |-> "Decode"] THEN Raised("JSONDecodeError")
    ELSE Returned(exchange.body)

\* The classes the except clauses of lines 134-141 test: ContentTypeError
\* and ClientConnectorError derive from aiohttp.ClientError, JSONDecodeError
\* from ValueError; asyncio.TimeoutError derives from neither.
IsClientError(exc) == exc \in {"ClientConnectorError", "ContentTypeError"}

IsValueError(exc) == exc \in {"ValueError", "JSONDecodeError"}

\* Lines 134-144: the reply each except clause sends.
ExceptReply(exc) ==
    IF IsClientError(exc) THEN "network-error"
    ELSE IF IsValueError(exc) THEN "data-error"
    ELSE "unexpected-error"

(***************************************************************************)
(* The command handler, ipinfo_cmd, lines 121-157.  Outcome is the record  *)
(* of one invocation: whether the body ran, the GET requests issued, the   *)
(* calls of the presenter, the reply sent (or "none"), the card sent, and  *)
(* the exception that left the handler (or "none").                        *)
(***************************************************************************)
\* Line 154: the ceiling on len(embed).
EmbedLimit == 6000

Outcome(reply, fetches, renders, card, escaped) ==
    [reply |-> reply, fetches |-> fetches, renders |-> renders,
     card |-> card, escaped |-> escaped]

NoCard == [title |-> <<>>, fields |-> <<>>, footer |-> <<>>]

\* Line 155: the mapping without its "raw" key.
DropRaw(data) == [k \in DOMAIN data \ {"raw"} |-> data[k]]

\* Lines 153-157.
RenderAndSend(target, data) ==
    LET first == make_embed_from_data(target, data)
    IN  IF EmbedLen(first) > EmbedLimit
        THEN Outcome("card", 1, 2, make_embed_from_data(target, DropRaw(data)), "none")
        ELSE Outcome("card", 1, 1, first, "none")

\* The two tests of lines 146-151 in the other order.
AfterFetchErrorFirst(target, data) ==
    IF data.t /= "dict" THEN Outcome("none", 1, 0, NoCard, "AttributeError")
    ELSE IF Truthy(Get(data.d, "error")) THEN Outcome("api-error", 1, 0, NoCard, "none")
    ELSE IF Truthy(Get(data.d, "bogon")) THEN Outcome("bogon-notice", 1, 0, NoCard, "none")
    ELSE RenderAndSend(target, data.d)

\* Lines 146-157, after a fetch that returned `data`.  A value that is no
\* mapping has no get method: line 146 raises AttributeError, outside
\* every try block.
AfterFetch(target, data) ==
    IF data.t /= "dict" THEN Outcome("none", 1, 0, NoCard, "AttributeError")
    ELSE IF Truthy(Get(data.d, "bogon")) THEN Outcome("bogon-notice", 1, 0, NoCard, "none")
    ELSE IF Truthy(Get(data.d, "error")) THEN Outcome("api-error", 1, 0, NoCard, "none")
    ELSE RenderAndSend(target, data.d)

\* Lines 125-157: the body, called with the converted argument.  The
\* typing indicator of line 125 changes nothing that the body reads.
Body(target, exchange) ==
    IF ~Truthy(target) THEN Outcome("usage-hint", 0, 0, NoCard, "none")
    ELSE LET r == fetch_ipinfo(exchange)
         IN  IF r.raised /= "none"
             THEN Outcome(ExceptReply(r.raised), 1, 0, NoCard, "none")
             ELSE AfterFetch(target.s, r.data)

\* Line 123: `target: str` has no default, so the framework binds it from
\* the message before it calls the body; a message with no argument raises
\* MissingRequiredArgument there and the body does not run.  The file
\* registers no error handler, so nothing replies.
Call(arg, exchange) ==
    IF arg = Missing THEN Outcome("none", 0, 0, NoCard, "MissingRequiredArgument")
    ELSE Body(arg, exchange)

(***************************************************************************)
(* The cooldown of line 122: commands.cooldown(1, 3, BucketType.user).     *)
(* One invocation per bucket opens a window of Per seconds; an invocation  *)
(* in an open window raises CommandOnCooldown before the arguments are     *)
(* read.  The window is over once the clock is past window + Per.          *)
(***************************************************************************)
Per == 3

\* The authors of the messages.
Users == {"ana", "ben"}

\* A cooldown that keeps one bucket for every author (BucketType.default).
BucketKeyDefault(u) == "default"

\* BucketType.user: the bucket of an invocation is its author.
BucketKey(u) == u

OnCooldown(u) ==
    /\ BucketKey(u) \in DOMAIN buckets
    /\ ~(now > buckets[BucketKey(u)] + Per)

(***************************************************************************)
(* The inputs of the dispatcher: the argument of the message and the       *)
(* remote exchange its lookup meets.                                       *)
(***************************************************************************)
HugeLen == 7000

CoordLen == 450

RawLen == 90

LongTargetLen == 1250

\* A loc of two long coordinates.
LongLoc == Str(<<Run("1", CoordLen), Run(",", 1), Run("2", CoordLen)>>)

Args == {Missing, Str(<<>>), Chars(<<"h">>), Filler(LongTargetLen)}

Results ==
    { [ip |-> Chars(<<"8">>), city |-> Chars(<<"c">>), loc |-> Chars(<<"1", ",", "2">>)],
      [ip |-> Chars(<<"8">>), bogon |-> Bool(TRUE)],
      [bogon |-> Bool(TRUE), error |-> Chars(<<"e">>)],
      [bogon |-> Bool(FALSE), error |-> Chars(<<"e">>)],
      [ip |-> Chars(<<"8">>), error |-> Str(<<>>), raw |-> Chars(<<"r">>)],
      [ip |-> Chars(<<"8">>), city |-> Filler(HugeLen)],
      [ip |-> Chars(<<"8">>), city |-> Filler(HugeLen), raw |-> Chars(<<"r">>)],
      [loc |-> LongLoc, raw |-> Filler(RawLen)],
      [loc |-> LongLoc] }

Exchanges ==
    { [kind |-> "raise", exc |-> "ClientConnectorError"],
      [kind |-> "raise", exc |-> "TimeoutError"],
      [kind |-> "http", status |-> 404, body |-> [t |-> "Decode"]],
      [kind |-> "http", status |-> 200, body |-> [t |-> "ContentType"]],
      [kind |-> "http", status |-> 200, body |-> [t |-> "Decode"]],
      [kind |-> "http", status |-> 200, body |-> List(<<>>)],
      [kind |-> "http", status |-> 200, body |-> None] }
    \cup { [kind |-> "http", status |-> 200, body |-> Dict(d)] : d \in Results }

\* No exchange: the invocation issues no GET request.
NoExchange == [kind |-> "none"]

(***************************************************************************)
(* Spec: ipinfo invocations by the users under a clock.                    *)
(***************************************************************************)
MaxTime == 5

Init ==
    /\ StartupIdle
    /\ RenderIdle
    /\ now = 0
    /\ buckets = <<>>
    /\ lastRun = [u \in Users |-> {}]
    /\ last = [kind |-> "none"]

Tick ==
    /\ now < MaxTime
    /\ now' = now + 1
    /\ UNCHANGED <<cfgFile, env, boot, rin, rout, buckets, lastRun, last>>

\* One message `<prefix>ipinfo [arg]` by user u: the cooldown of line 122,
\* then the binding of the argument and the body.  The exchange is the one
\* the GET request of line 65 meets; an invocation that is suppressed, or
\* that has no target to look up, meets none.
Invoke(u, arg, exchange) ==
    LET elapsed == {now - t : t \in lastRun[u]}
        record(passed, out) ==
            [kind |-> "invoke", user |-> u, elapsed |-> elapsed, passed |-> passed,
             arg |-> arg, exchange |-> exchange, out |-> out]
    IN  /\ exchange = NoExchange <=> (OnCooldown(u) \/ arg = Missing \/ ~Truthy(arg))
        /\ IF OnCooldown(u)
           THEN /\ last' = record(FALSE, Outcome("none", 0, 0, NoCard, "CommandOnCooldown"))
                /\ UNCHANGED <<buckets, lastRun>>
           ELSE /\ buckets' = [k \in DOMAIN buckets \cup {BucketKey(u)} |->
                                 IF k = BucketKey(u) THEN now ELSE buckets[k]]
                /\ lastRun' = [lastRun EXCEPT ![u] = {now}]
                /\ last' = record(TRUE, Call(arg, exchange))
        /\ UNCHANGED <<cfgFile, env, boot, rin, rout, now>>

Next ==
    \/ Tick
    \/ \E u \in Users, arg \in Args, exchange \in Exchanges \cup {NoExchange} :
          Invoke(u, arg, exchange)

Spec == Init /\ [][Next]_vars

(***************************************************************************)
(* Claims about the ipinfo command, checked under Spec.                    *)
(***************************************************************************)
Invoked == last.kind = "invoke"

\* The message carries a target the handler can look up.
HasTarget(arg) == arg /= Missing /\ arg /= Str(<<>>)

\* C1: for every invocation of ipinfo by a user, if the user's previous
\* invocation that passed the cooldown was less than 3 seconds earlier, the
\* invocation is suppressed and issues no remote call (so the two produce
\* exactly one); if no invocation of the user passed before, or the last one
\* did more than 3 seconds earlier, an invocation with a target passes and
\* issues exactly one remote call.
C1_CooldownOneCallPerWindow ==
    Invoked =>
        /\ (\E e \in last.elapsed : e < 3)
              => (~last.passed /\ last.out.fetches = 0)
        /\ ((\A e \in last.elapsed : e > 3) /\ HasTarget(last.arg))
              => (last.passed /\ last.out.fetches = 1)
        /\ last.out.fetches > 0 => last.passed

\* A second invocation with a target, 1 or 2 seconds after one that passed.
C1_Witness ==
    /\ Invoked
    /\ last.elapsed \in {{1}, {2}}
    /\ HasTarget(last.arg)
    /\ ~last.passed
    /\ \E u \in Users : u /= last.user /\ lastRun[u] /= {}

\* C2: an invocation of ipinfo without a target argument (none given, or an
\* empty one) replies with the usage hint and issues no remote call.
C2_NoTargetGetsUsageHint ==
    (Invoked /\ last.passed /\ ~HasTarget(last.arg))
        => (last.out.reply = "usage-hint" /\ last.out.fetches = 0)

\* C3: when the lookup fails by the total timeout expiring, the handler
\* replies with the network-error message and neither renders nor sends a
\* card.
C3_TimeoutGetsNetworkError ==
    (Invoked /\ last.exchange = [kind |-> "raise", exc |-> "TimeoutError"])
        => (last.out.reply = "network-error" /\ last.out.renders = 0
              /\ last.out.fetches = 1)

\* C4: every invocation that the cooldown does not suppress ends with a
\* reply sent, and no exception leaves the handler.
C4_EveryInvocationReplies ==
    (Invoked /\ last.passed)
        => (last.out.escaped = "none" /\ last.out.reply /= "none")

\* The lookup of the latest invocation returned a mapping whose bogon
\* marker is true.
BogonResult ==
    /\ Invoked
    /\ last.exchange.kind = "http"
    /\ last.exchange.status = 200
    /\ last.exchange.body.t = "dict"
    /\ "bogon" \in DOMAIN last.exchange.body.d
    /\ last.exchange.body.d["bogon"] = Bool(TRUE)

\* C5: for every lookup result whose bogon marker is true, whatever else it
\* carries, the handler sends the reserved-address notice and never calls
\* the presenter.
C5_BogonNeverRendered ==
    BogonResult => (last.out.reply = "bogon-notice" /\ last.out.renders = 0)

\* A bogon result that carries an error as well.
C5_Witness ==
    /\ BogonResult
    /\ "error" \in DOMAIN last.exchange.body.d
    /\ last.exchange.body.d["error"] /= Str(<<>>)
    /\ last.out.reply = "bogon-notice"

\* C8: every card the command sends is at most 6000 characters long; a first
\* render above the ceiling is replaced by one re-render from the result
\* without its raw field, and that card is the one sent.
C8_SentCardWithinLimit ==
    (Invoked /\ last.out.reply = "card")
        => /\ EmbedLen(last.out.card) <= 6000
           /\ last.out.renders <= 2
           /\ last.out.renders = 2
                => last.out.card
                     = make_embed_from_data(last.arg.s, DropRaw(last.exchange.body.d))

(***************************************************************************)
(* The start-up code, lines 18-54, and SpecStartup.                        *)
(*                                                                         *)
(* cfgFile is [exists |-> FALSE], or [exists |-> TRUE, parsed |-> v] with  *)
(* v what yaml.safe_load returns, or [t |-> "YAMLError"] when it raises.   *)
(* env maps each variable to its string, or to Missing when it is unset.   *)
(***************************************************************************)
YAMLError == [t |-> "YAMLError"]

\* The content of a file that is absent: a run never reads it.
NoFile == [exists |-> FALSE, parsed |-> None]

\* a or b.
PyOr(a, b) == IF Truthy(a) THEN a ELSE b

\* os.getenv(name).
Getenv(e, name) == IF e[name] = Missing THEN None ELSE e[name]

\* Lines 18-26: the value of `config` after the load.
LoadedConfig(file) ==
    IF ~file.exists THEN Dict(<<>>)
    ELSE IF file.parsed = YAMLError THEN Dict(<<>>)
    ELSE PyOr(file.parsed, Dict(<<>>))

\* config.get("BOT_CONFIG", {}).get(key), lines 29, 34 and 39: a value
\* without a get method raises AttributeError.
ConfigValue(config, key) ==
    IF config.t /= "dict" THEN Raised("AttributeError")
    ELSE LET section == IF "BOT_CONFIG" \in DOMAIN config.d
                        THEN config.d["BOT_CONFIG"] ELSE Dict(<<>>)
         IN  IF section.t /= "dict" THEN Raised("AttributeError")
             ELSE Returned(Get(section.d, key))

\* The state of the start-up: exit is the set holding the exit status once
\* the process has ended, error the exception that ended it.
Booting(pc, config, token, prefix, apiToken, exit, error, bot, commands) ==
    [pc |-> pc, config |-> config, bot_token |-> token, prefix |-> prefix,
     ipinfo_token |-> apiToken, exit |-> exit, error |-> error, bot |-> bot,
     commands |-> commands]

ConfigFiles ==
    { NoFile,
      [exists |-> TRUE, parsed |-> YAMLError],
      [exists |-> TRUE, parsed |-> None],
      [exists |-> TRUE, parsed |-> List(<<>>)],
      [exists |-> TRUE, parsed |-> List(<<Num(1)>>)],
      [exists |-> TRUE, parsed |-> Chars(<<"s">>)],
      [exists |-> TRUE, parsed |-> Dict([OTHER_KEY |-> Num(1)])],
      [exists |-> TRUE, parsed |-> Dict([BOT_CONFIG |-> None])],
      [exists |-> TRUE, parsed |-> Dict([BOT_CONFIG |-> Chars(<<"s">>)])],
      [exists |-> TRUE, parsed |-> Dict([BOT_CONFIG |-> List(<<Num(1)>>)])] }
    \cup { [exists |-> TRUE,
            parsed |-> Dict([BOT_CONFIG |->
                               Dict(MkData([TOKEN |-> t, PREFIX |-> p, IPINFO_TOKEN |-> k]))])] :
             t \in {Missing, None, Str(<<>>), Chars(<<"t">>)},
             p \in {Missing, Chars(<<"?">>)},
             k \in {Missing, Chars(<<"k">>)} }

Environments ==
    { [BOT_TOKEN |-> b, DISCORD_TOKEN |-> d, BOT_PREFIX |-> p,
       IPINFO_TOKEN |-> k, IPINFO_IO_TOKEN |-> j] :
        b \in {Missing, Str(<<>>), Chars(<<"b">>)},
        d \in {Missing, Str(<<>>), Chars(<<"d">>)},
        p \in {Missing, Chars(<<"$">>)},
        k \in {Missing, Chars(<<"i">>)},
        j \in {Missing, Chars(<<"j">>)} }

InitStartup ==
    /\ RenderIdle
    /\ DispatchIdle
    /\ cfgFile \in ConfigFiles
    /\ env \in Environments
    /\ boot = Booting("load", None, None, None, None, {}, "none", FALSE, {})

\* Lines 18-26.
LoadConfig ==
    /\ boot.pc = "load"
    /\ boot' = [boot EXCEPT !.pc = "resolve", !.config = LoadedConfig(cfgFile)]
    /\ UNCHANGED <<cfgFile, env, rin, rout, now, buckets, lastRun, last>>

\* Lines 28-42.  An exception here is uncaught: the interpreter prints the
\* traceback and the process ends with status 1.
ResolveSettings ==
    /\ boot.pc = "resolve"
    /\ LET token    == ConfigValue(boot.config, "TOKEN")
           prefix   == ConfigValue(boot.config, "PREFIX")
           apiToken == ConfigValue(boot.config, "IPINFO_TOKEN")
       IN  IF token.raised /= "none"
           THEN boot' = [boot EXCEPT !.pc = "exited", !.exit = {1}, !.error = token.raised]
           ELSE boot' = [boot EXCEPT
                   !.pc = "check",
                   !.bot_token = PyOr(token.data,
                                      PyOr(Getenv(env, "BOT_TOKEN"),
                                           Getenv(env, "DISCORD_TOKEN"))),
                   !.prefix = PyOr(prefix.data,
                                   PyOr(Getenv(env, "BOT_PREFIX"), Str(Lit("!")))),
                   !.ipinfo_token = PyOr(apiToken.data,
                                         PyOr(Getenv(env, "IPINFO_TOKEN"),
                                              Getenv(env, "IPINFO_IO_TOKEN")))]
    /\ UNCHANGED <<cfgFile, env, rin, rout, now, buckets, lastRun, last>>

\* Lines 44-49.
CheckToken ==
    /\ boot.pc = "check"
    /\ IF ~Truthy(boot.bot_token)
       THEN boot' = [boot EXCEPT !.pc = "exited", !.exit = {1}, !.error = "SystemExit"]
       ELSE boot' = [boot EXCEPT !.pc = "create"]
    /\ UNCHANGED <<cfgFile, env, rin, rout, now, buckets, lastRun, last>>

\* Lines 51-54, and the decorators of lines 112 and 121 that register the
\* two commands on the bot.
CreateBot ==
    /\ boot.pc = "create"
    /\ boot' = [boot EXCEPT !.pc = "ready", !.bot = TRUE, !.commands = {"help", "ipinfo"}]
    /\ UNCHANGED <<cfgFile, env, rin, rout, now, buckets, lastRun, last>>

NextStartup == LoadConfig \/ ResolveSettings \/ CheckToken \/ CreateBot

SpecStartup == InitStartup /\ [][NextStartup]_vars

(***************************************************************************)
(* Claims about the start-up, checked under SpecStartup.                   *)
(***************************************************************************)
\* The start-up has passed the resolution of lines 28-42, or ended in it.
Resolved == boot.pc \in {"check", "create", "ready", "exited"}

\* The file exists and its content is no well-formed configuration: it does
\* not parse, or its top level or its BOT_CONFIG section is no mapping.
MalformedConfig ==
    /\ cfgFile.exists
    /\ \/ cfgFile.parsed = YAMLError
       \/ cfgFile.parsed.t /= "dict"
       \/ /\ cfgFile.parsed.t = "dict"
          /\ "BOT_CONFIG" \in DOMAIN cfgFile.parsed.d
          /\ cfgFile.parsed.d["BOT_CONFIG"].t /= "dict"

\* The first of the values that is a non-empty string, or None.
RECURSIVE FirstNonEmpty(_)
FirstNonEmpty(vs) ==
    IF vs = <<>> THEN None
    ELSE IF Head(vs).t = "str" /\ Head(vs).s /= <<>> THEN Head(vs)
    ELSE FirstNonEmpty(Tail(vs))

\* The value of `key` in the BOT_CONFIG section of the file, Missing when
\* the file does not provide one.
FileValue(key) ==
    IF /\ cfgFile.exists
       /\ cfgFile.parsed /= YAMLError
       /\ cfgFile.parsed.t = "dict"
       /\ "BOT_CONFIG" \in DOMAIN cfgFile.parsed.d
       /\ cfgFile.parsed.d["BOT_CONFIG"].t = "dict"
       /\ key \in DOMAIN cfgFile.parsed.d["BOT_CONFIG"].d
    THEN cfgFile.parsed.d["BOT_CONFIG"].d[key]
    ELSE Missing

\* The setting has the value the sources give it: `expected`, or nothing
\* when no source gives one.
SettingIs(actual, expected) ==
    IF expected = None THEN actual = None \/ actual = Str(<<>>)
    ELSE actual = expected

\* C6: an existing config file whose content is malformed never crashes the
\* start-up: the three settings are resolved as with no file, from the
\* environment variables and the default prefix.
C6_MalformedConfigAsAbsent ==
    (MalformedConfig /\ Resolved) =>
        /\ boot.error /= "AttributeError"
        /\ SettingIs(boot.bot_token,
                     FirstNonEmpty(<<env["BOT_TOKEN"], env["DISCORD_TOKEN"]>>))
        /\ SettingIs(boot.prefix,
                     FirstNonEmpty(<<env["BOT_PREFIX"], Str(Lit("!"))>>))
        /\ SettingIs(boot.ipinfo_token,
                     FirstNonEmpty(<<env["IPINFO_TOKEN"], env["IPINFO_IO_TOKEN"]>>))

\* The bot credential the sources provide: the first non-empty one of the
\* file's TOKEN, BOT_TOKEN and DISCORD_TOKEN.
Credential ==
    FirstNonEmpty(<<FileValue("TOKEN"), env["BOT_TOKEN"], env["DISCORD_TOKEN"]>>)

\* C7: with no bot credential from any source the process ends with a
\* non-zero status before the bot is created or a command registered; with
\* one, the first non-empty of file, BOT_TOKEN, DISCORD_TOKEN is used and
\* the start-up proceeds to the bot with its commands.
C7_CredentialOrExit ==
    /\ boot.bot => Credential /= None
    /\ boot.pc = "exited"
         => (Credential = None /\ boot.exit /= {} /\ 0 \notin boot.exit
               /\ ~boot.bot /\ boot.commands = {})
    /\ boot.pc = "ready"
         => (boot.bot_token = Credential /\ boot.commands = {"help", "ipinfo"})

(***************************************************************************)
(* Claims about the presenter, checked under SpecRender.                   *)
(***************************************************************************)
Rendered == rout.done

\* The fields of the card named `name`.
EntriesNamed(name) ==
    {j \in 1..Len(rout.embed.fields) : rout.embed.fields[j].name = name}

\* The text is a number: digits, with at most a sign before them and a
\* decimal point among them.
Digits == {"0", "1", "2", "3", "4", "5", "6", "7", "8", "9"}

IsNumeric(s) ==
    /\ \E i \in 1..Len(s) : s[i].c \in Digits
    /\ \A i \in 1..Len(s) :
         \/ s[i].c \in Digits
         \/ s[i].c = "." /\ s[i].n = 1
         \/ s[i].c = "-" /\ s[i].n = 1 /\ i = 1

\* loc is present and parses as latitude, longitude.
LocIsCoordinates(data) ==
    /\ "loc" \in DOMAIN data
    /\ data["loc"].t = "str"
    /\ Len(Split(data["loc"].s)) = 2
    /\ IsNumeric(Split(data["loc"].s)[1])
    /\ IsNumeric(Split(data["loc"].s)[2])

\* C9: the card has the map block if and only if loc is present and parses
\* as two comma-separated numeric components, and then both links carry the
\* latitude and the longitude.
C9_MapBlockIffCoordinates ==
    Rendered =>
        /\ EntriesNamed("Map") /= {} <=> LocIsCoordinates(rin.data)
        /\ \A j \in EntriesNamed("Map") :
             rout.embed.fields[j].value
               = MapValue(Split(rin.data["loc"].s)[1], Split(rin.data["loc"].s)[2])

\* The field is present in the result and its value is not empty.
PresentNonEmpty(data, key) ==
    /\ key \in DOMAIN data
    /\ data[key] /= None
    /\ data[key] /= Str(<<>>)
    /\ data[key] /= Num(0)
    /\ data[key] /= Bool(FALSE)

\* The position of a label in the fixed list, 0 for any other name.
LabelIndex(name) ==
    IF \E i \in 1..Len(fields) : fields[i][1] = name
    THEN CHOOSE i \in 1..Len(fields) : fields[i][1] = name
    ELSE 0

\* C10: the card holds exactly one entry for each field of the fixed list
\* that is present and non-empty in the result, none for a field that is
\* absent or empty, and the entries stand in the order of the list.
C10_OneEntryPerNonEmptyField ==
    Rendered =>
        /\ \A i \in 1..Len(fields) :
             Cardinality(EntriesNamed(fields[i][1]))
               = IF PresentNonEmpty(rin.data, fields[i][2]) THEN 1 ELSE 0
        /\ \A j, k \in 1..Len(rout.embed.fields) :
             (j < k /\ LabelIndex(rout.embed.fields[j].name) > 0
                    /\ LabelIndex(rout.embed.fields[k].name) > 0)
               => LabelIndex(rout.embed.fields[j].name)
                    < LabelIndex(rout.embed.fields[k].name)

\* A result with fields that are present, fields that are empty and fields
\* that are absent, rendered to a card of five entries of the list.
C10_Witness ==
    /\ Rendered
    /\ "ip" \in DOMAIN rin.data /\ rin.data["ip"] = Str(<<>>)
    /\ "city" \notin DOMAIN rin.data
    /\ "org" \in DOMAIN rin.data /\ rin.data["org"] = None
    /\ "postal" \in DOMAIN rin.data /\ rin.data["postal"] = Num(7)
    /\ Cardinality({j \in 1..Len(rout.embed.fields) :
                      LabelIndex(rout.embed.fields[j].name) > 0}) = 5

====
